---------------------------- MODULE Spec2Model ----------------------------
(***************************************************************************)
(* Model of the notebook moto.ipynb: the upload helper some_upload, the    *)
(* decorated set-up helper bucket, the decorated test test_upload and the  *)
(* step-by-step cells that drive a raw mock_s3 session.                    *)
(*                                                                         *)
(* The notebook's own code is translated from src/moto.ipynb.  The mocked  *)
(* storage service it calls (moto's mock_s3 and the boto3 client) is not   *)
(* part of the repository; its behaviour is taken from the specification   *)
(* (sections 3, 5, 6 and 8).  Two behaviours of that library are fixed     *)
(* neither by the specification nor by the repository and are left open:   *)
(* whether a start that overlaps an active session resets the store        *)
(* (reset_nested, fixed per run), and whether creating a container that    *)
(* already exists is answered with an error or with success.               *)
(***************************************************************************)
EXTENDS Integers, FiniteSets, TLC

VARIABLES
    nested_count,   \* number of mock_s3 contexts currently entered
    backend,        \* the mocked store: container name -> set of objects
    reset_nested,   \* library behaviour: an overlapping start resets the store
    pc_test,        \* position inside test_upload
    pc_bucket,      \* position inside the helper bucket(client)
    bucket_caller,  \* who called the helper: "top" or "test_upload"
    bucket_name,    \* test_upload's bucket_name: what the helper returned to it
    test_result,    \* outcome of the last finished test_upload
    resp,           \* response of the last client call
    uploaded,       \* history: last data some_upload stored per (container, key) in the session
    nuploads,       \* history: number of successful some_upload calls per container in the session
    wiped,          \* history: an overlapping start dropped containers of the session
    created,        \* history: containers created by create_bucket calls in the session
    replaced,       \* history: the different content the last some_upload overwrote
    raw_started,    \* history: mock.start() calls not yet matched by mock.stop()
    outer_before    \* history: the store as test_upload had it when it called the helper

vars == <<nested_count, backend, reset_nested, pc_test, pc_bucket,
          bucket_caller, bucket_name, test_result, resp, uploaded, nuploads, wiped,
          created, replaced, raw_started, outer_before>>

---------------------------------------------------------------------------
(* Bounds of the model *)

MaxNested == 1      \* raw mock.start() calls that may be outstanding at once
MaxUploads == 2     \* successful uploads per session

(* Names and contents used by the notebook *)

TestBucket == "test_bucket"
Buckets == {TestBucket, "some_bucket2", "some_bucket3"}
TestKey == "somewhere/something.txt"
Keys == {TestKey, "somewhere/else.txt"}
TestData == "Made up file contents because I have no imagination."
CellData == "Something something"
Datas == {TestData, CellData}
Clients == {"caller", "some_upload"}

None == "-"

---------------------------------------------------------------------------
(* The storage service's call surface (specification section 6) *)

EmptyStore == << >>

HasBucket(s, b) == b \in DOMAIN s

HasKey(s, b, k) == HasBucket(s, b) /\ \E o \in s[b] : o.key = k

s3_create_bucket(s, b) == IF HasBucket(s, b) THEN s ELSE s @@ (b :> {})

s3_put_object(s, b, k, d) ==
    [s EXCEPT ![b] = {o \in @ : o.key # k} \cup {[key |-> k, body |-> d]}]

s3_list_buckets(client, s) == DOMAIN s

s3_list_objects(client, s, b) == {o.key : o \in s[b]}

s3_get_object(client, s, b, k) == (CHOOSE o \in s[b] : o.key = k).body

Resp(who, op, ctx, status, b, k, body, keys, names) ==
    [who |-> who, op |-> op, ctx |-> ctx, status |-> status, bucket |-> b, key |-> k,
     body |-> body, keys |-> keys, names |-> names]

NoResp == Resp(None, None, None, None, None, None, None, {}, {})

RealResp(who, op, status, b, k) == Resp(who, op, "real", status, b, k, None, {}, {})

NoUploads == [b \in Buckets |-> [k \in Keys |-> None]]

NoCounts == [b \in Buckets |-> 0]

RECURSIVE SumCounts(_, _)
SumCounts(f, S) ==
    IF S = {} THEN 0
    ELSE LET b == CHOOSE x \in S : TRUE IN f[b] + SumCounts(f, S \ {b})


---------------------------------------------------------------------------
(* The mocked session (specification sections 3 and 5) *)

\* Entering a mock_s3 context: a session that starts from no active context
\* starts empty; an overlapping start resets the store when reset_nested.
start ==
    /\ nested_count' = nested_count + 1
    /\ backend' = IF nested_count = 0 \/ reset_nested THEN EmptyStore ELSE backend
    /\ wiped' = IF nested_count = 0 THEN FALSE
                ELSE wiped \/ (reset_nested /\ backend # EmptyStore)
    /\ uploaded' = IF nested_count = 0 THEN NoUploads ELSE uploaded
    /\ nuploads' = IF nested_count = 0 THEN NoCounts ELSE nuploads
    /\ created' = IF nested_count = 0 THEN {} ELSE created
    /\ replaced' = None

\* Leaving a mock_s3 context: when the last one is left the session ends
\* and all its containers and objects are discarded.
stop ==
    /\ nested_count' = nested_count - 1
    /\ backend' = IF nested_count = 1 THEN EmptyStore ELSE backend
    /\ wiped' = IF nested_count = 1 THEN FALSE ELSE wiped
    /\ uploaded' = IF nested_count = 1 THEN NoUploads ELSE uploaded
    /\ nuploads' = IF nested_count = 1 THEN NoCounts ELSE nuploads
    /\ created' = IF nested_count = 1 THEN {} ELSE created
    /\ replaced' = None

---------------------------------------------------------------------------
(* Client calls: against the mocked store while a context is active,       *)
(* against the real service otherwise.                                     *)

create_bucket(who, b) ==
    IF nested_count > 0
    THEN /\ backend' = s3_create_bucket(backend, b)
         /\ \E st \in (IF HasBucket(backend, b) THEN {"ok", "error"} ELSE {"ok"}) :
                resp' = Resp(who, "create_bucket", "mock", st, b, None, None, {}, {})
    ELSE /\ \E st \in {"ok", "error"} : resp' = RealResp(who, "create_bucket", st, b, None)
         /\ UNCHANGED backend

put_object(who, b, k, d) ==
    IF nested_count > 0
    THEN /\ backend' = IF HasBucket(backend, b) THEN s3_put_object(backend, b, k, d)
                       ELSE backend
         /\ resp' = Resp(who, "put_object", "mock",
                         IF HasBucket(backend, b) THEN "ok" ELSE "error",
                         b, k, None, {}, {})
    ELSE /\ \E st \in {"ok", "error"} : resp' = RealResp(who, "put_object", st, b, k)
         /\ UNCHANGED backend

list_buckets(who) ==
    IF nested_count > 0
    THEN /\ resp' = Resp(who, "list_buckets", "mock", "ok", None, None, None, {},
                         s3_list_buckets(who, backend))
         /\ UNCHANGED backend
    ELSE /\ \E st \in {"ok", "error"} : resp' = RealResp(who, "list_buckets", st, None, None)
         /\ UNCHANGED backend

list_objects(who, b) ==
    IF nested_count > 0
    THEN /\ resp' = IF HasBucket(backend, b)
                    THEN Resp(who, "list_objects", "mock", "ok", b, None, None,
                              s3_list_objects(who, backend, b), {})
                    ELSE Resp(who, "list_objects", "mock", "error", b, None, None, {}, {})
         /\ UNCHANGED backend
    ELSE /\ \E st \in {"ok", "error"} : resp' = RealResp(who, "list_objects", st, b, None)
         /\ UNCHANGED backend

get_object(who, b, k) ==
    IF nested_count > 0
    THEN /\ resp' = IF HasKey(backend, b, k)
                    THEN Resp(who, "get_object", "mock", "ok", b, k,
                              s3_get_object(who, backend, b, k), {}, {})
                    ELSE Resp(who, "get_object", "mock", "error", b, k, None, {}, {})
         /\ UNCHANGED backend
    ELSE /\ \E st \in {"ok", "error"} : resp' = RealResp(who, "get_object", st, b, k)
         /\ UNCHANGED backend

---------------------------------------------------------------------------
(* The notebook's functions *)

\* Variants of some_upload with one slip each.

\* Body is a fixed content instead of the data passed in
some_upload_const_body(data, bucket, key) ==
    /\ put_object("some_upload", bucket, key, TestData)
    /\ IF nested_count > 0 /\ HasBucket(backend, bucket)
       THEN /\ uploaded' = [uploaded EXCEPT ![bucket][key] = data]
            /\ nuploads' = [nuploads EXCEPT ![bucket] = @ + 1]
       ELSE UNCHANGED <<uploaded, nuploads>>
    /\ replaced' = IF nested_count > 0 /\ HasKey(backend, bucket, key)
                      /\ s3_get_object("some_upload", backend, bucket, key) # data
                   THEN s3_get_object("some_upload", backend, bucket, key)
                   ELSE None
    /\ UNCHANGED <<nested_count, wiped, created>>

\* Key is a fixed key instead of the key passed in
some_upload_fixed_key(data, bucket, key) ==
    /\ put_object("some_upload", bucket, TestKey, data)
    /\ IF nested_count > 0 /\ HasBucket(backend, bucket)
       THEN /\ uploaded' = [uploaded EXCEPT ![bucket][key] = data]
            /\ nuploads' = [nuploads EXCEPT ![bucket] = @ + 1]
       ELSE UNCHANGED <<uploaded, nuploads>>
    /\ replaced' = IF nested_count > 0 /\ HasKey(backend, bucket, key)
                      /\ s3_get_object("some_upload", backend, bucket, key) # data
                   THEN s3_get_object("some_upload", backend, bucket, key)
                   ELSE None
    /\ UNCHANGED <<nested_count, wiped, created>>

\* Bucket is a default name instead of the bucket passed in
some_upload_fixed_bucket(data, bucket, key) ==
    /\ put_object("some_upload", TestBucket, key, data)
    /\ IF nested_count > 0 /\ HasBucket(backend, bucket)
       THEN /\ uploaded' = [uploaded EXCEPT ![bucket][key] = data]
            /\ nuploads' = [nuploads EXCEPT ![bucket] = @ + 1]
       ELSE UNCHANGED <<uploaded, nuploads>>
    /\ replaced' = IF nested_count > 0 /\ HasKey(backend, bucket, key)
                      /\ s3_get_object("some_upload", backend, bucket, key) # data
                   THEN s3_get_object("some_upload", backend, bucket, key)
                   ELSE None
    /\ UNCHANGED <<nested_count, wiped, created>>

\* an object that already exists is not uploaded again
some_upload_keep_first(data, bucket, key) ==
    /\ IF nested_count > 0 /\ HasKey(backend, bucket, key)
       THEN /\ resp' = Resp("some_upload", "put_object", "mock", "ok", bucket, key, None, {}, {})
            /\ UNCHANGED backend
       ELSE put_object("some_upload", bucket, key, data)
    /\ IF nested_count > 0 /\ HasBucket(backend, bucket)
       THEN /\ uploaded' = [uploaded EXCEPT ![bucket][key] = data]
            /\ nuploads' = [nuploads EXCEPT ![bucket] = @ + 1]
       ELSE UNCHANGED <<uploaded, nuploads>>
    /\ replaced' = IF nested_count > 0 /\ HasKey(backend, bucket, key)
                      /\ s3_get_object("some_upload", backend, bucket, key) # data
                   THEN s3_get_object("some_upload", backend, bucket, key)
                   ELSE None
    /\ UNCHANGED <<nested_count, wiped, created>>

\* a missing container is created on the fly
some_upload_autocreate(data, bucket, key) ==
    /\ IF nested_count > 0 /\ ~HasBucket(backend, bucket)
       THEN /\ backend' = s3_put_object(s3_create_bucket(backend, bucket), bucket, key, data)
            /\ resp' = Resp("some_upload", "put_object", "mock", "ok", bucket, key, None, {}, {})
          ELSE put_object("some_upload", bucket, key, data)
    /\ IF nested_count > 0 /\ HasBucket(backend, bucket)
       THEN /\ uploaded' = [uploaded EXCEPT ![bucket][key] = data]
            /\ nuploads' = [nuploads EXCEPT ![bucket] = @ + 1]
       ELSE UNCHANGED <<uploaded, nuploads>>
    /\ replaced' = IF nested_count > 0 /\ HasKey(backend, bucket, key)
                      /\ s3_get_object("some_upload", backend, bucket, key) # data
                   THEN s3_get_object("some_upload", backend, bucket, key)
                   ELSE None
    /\ UNCHANGED <<nested_count, wiped, created>>

\* the client is bound to the real service whatever context is active
some_upload_real_client(data, bucket, key) ==
    /\ \E st \in {"ok", "error"} : resp' = RealResp("some_upload", "put_object", st, bucket, key)
    /\ UNCHANGED backend
    /\ IF nested_count > 0 /\ HasBucket(backend, bucket)
       THEN /\ uploaded' = [uploaded EXCEPT ![bucket][key] = data]
            /\ nuploads' = [nuploads EXCEPT ![bucket] = @ + 1]
       ELSE UNCHANGED <<uploaded, nuploads>>
    /\ replaced' = IF nested_count > 0 /\ HasKey(backend, bucket, key)
                      /\ s3_get_object("some_upload", backend, bucket, key) # data
                   THEN s3_get_object("some_upload", backend, bucket, key)
                   ELSE None
    /\ UNCHANGED <<nested_count, wiped, created>>

\* def some_upload(data, bucket, key): a client of its own, one put_object
some_upload(data, bucket, key) ==
    /\ put_object("some_upload", bucket, key, data)
    /\ IF nested_count > 0 /\ HasBucket(backend, bucket)
       THEN /\ uploaded' = [uploaded EXCEPT ![bucket][key] = data]
            /\ nuploads' = [nuploads EXCEPT ![bucket] = @ + 1]
       ELSE UNCHANGED <<uploaded, nuploads>>
    /\ replaced' = IF nested_count > 0 /\ HasKey(backend, bucket, key)
                      /\ s3_get_object("some_upload", backend, bucket, key) # data
                   THEN s3_get_object("some_upload", backend, bucket, key)
                   ELSE None
    /\ UNCHANGED <<nested_count, wiped, created>>

Idle == pc_test = "idle" /\ pc_bucket = "idle"

Budget == SumCounts(nuploads, Buckets) < MaxUploads

CanCallBucket(caller) ==
    /\ pc_bucket = "idle"
    /\ \/ caller = "top" /\ pc_test = "idle"
       \/ caller = "test_upload" /\ pc_test = "bucket"

\* Variant of bucket_enter: the @mock_s3 line above def bucket is missing
bucket_enter_undecorated(caller) ==
    /\ CanCallBucket(caller)
    /\ pc_bucket' = "create"
    /\ bucket_caller' = caller
    /\ pc_test' = IF caller = "test_upload" THEN "in_bucket" ELSE pc_test
    /\ outer_before' = IF caller = "test_upload" THEN backend ELSE outer_before
    /\ resp' = NoResp
    /\ replaced' = None
    /\ UNCHANGED <<nested_count, backend, wiped, uploaded, nuploads, created,
                   reset_nested, bucket_name, test_result, raw_started>>

\* @mock_s3 on def bucket(client): the wrapper enters a context
bucket_enter(caller) ==
    /\ CanCallBucket(caller)
    /\ start
    /\ pc_bucket' = "create"
    /\ bucket_caller' = caller
    /\ pc_test' = IF caller = "test_upload" THEN "in_bucket" ELSE pc_test
    /\ outer_before' = IF caller = "test_upload" THEN backend ELSE outer_before
    /\ resp' = NoResp
    /\ UNCHANGED <<reset_nested, bucket_name, test_result, raw_started>>

\* bucket_name = "test_bucket"; client.create_bucket(Bucket=bucket_name)
bucket_create ==
    /\ pc_bucket = "create"
    /\ create_bucket("bucket", TestBucket)
    /\ created' = IF resp'.ctx = "mock" /\ resp'.status = "ok"
                  THEN created \cup {TestBucket} ELSE created
    /\ pc_bucket' = IF resp'.status = "ok" THEN "return" ELSE "raise"
    /\ replaced' = None
    /\ UNCHANGED <<nested_count, reset_nested, pc_test, bucket_caller, bucket_name,
                   test_result, uploaded, nuploads, wiped, raw_started, outer_before>>

\* Variant of bucket_exit: the helper cleans up the container it created
\* before it returns
bucket_exit_cleans_up ==
    /\ pc_bucket \in {"return", "raise"}
    /\ nested_count' = nested_count - 1
    /\ backend' = IF nested_count = 1 THEN EmptyStore
                  ELSE [b \in DOMAIN backend \ {TestBucket} |-> backend[b]]
    /\ wiped' = IF nested_count = 1 THEN FALSE ELSE wiped
    /\ uploaded' = IF nested_count = 1 THEN NoUploads ELSE uploaded
    /\ nuploads' = IF nested_count = 1 THEN NoCounts ELSE nuploads
    /\ created' = IF nested_count = 1 THEN {} ELSE created
    /\ replaced' = None
    /\ bucket_name' = IF bucket_caller = "test_upload" /\ pc_bucket = "return"
                      THEN TestBucket ELSE None
    /\ pc_bucket' = "idle"
    /\ bucket_caller' = "top"
    /\ pc_test' = IF bucket_caller = "test_upload"
                  THEN (IF pc_bucket = "return" THEN "upload" ELSE "raise")
                  ELSE pc_test
    /\ resp' = NoResp
    /\ UNCHANGED <<reset_nested, test_result, raw_started, outer_before>>

\* return bucket_name (or the client's error), through the wrapper's exit
bucket_exit ==
    /\ pc_bucket \in {"return", "raise"}
    /\ stop
    /\ bucket_name' = IF bucket_caller = "test_upload" /\ pc_bucket = "return"
                      THEN TestBucket ELSE None
    /\ pc_bucket' = "idle"
    /\ bucket_caller' = "top"
    /\ pc_test' = IF bucket_caller = "test_upload"
                  THEN (IF pc_bucket = "return" THEN "upload" ELSE "raise")
                  ELSE pc_test
    /\ resp' = NoResp
    /\ UNCHANGED <<reset_nested, test_result, raw_started, outer_before>>

\* @mock_s3 on def test_upload(): the wrapper enters a context;
\* client = boto3.client("s3")
test_upload_enter ==
    /\ Idle
    /\ Budget
    /\ start
    /\ pc_test' = "bucket"
    /\ resp' = NoResp
    /\ UNCHANGED <<reset_nested, pc_bucket, bucket_caller, bucket_name,
                   test_result, raw_started, outer_before>>

\* some_upload(data, bucket_name, key)
test_upload_upload ==
    /\ pc_test = "upload"
    /\ some_upload(TestData, bucket_name, TestKey)
    /\ pc_test' = IF resp'.status = "ok" THEN "list" ELSE "raise"
    /\ UNCHANGED <<reset_nested, pc_bucket, bucket_caller, bucket_name, test_result,
                   raw_started, outer_before>>

\* objects = client.list_objects(Bucket=bucket_name)
\* assert len(objects["Contents"]) == 1
test_upload_list ==
    /\ pc_test = "list"
    /\ list_objects("caller", bucket_name)
    /\ pc_test' = IF resp'.status = "ok" /\ Cardinality(resp'.keys) = 1
                  THEN "get" ELSE "raise"
    /\ replaced' = None
    /\ UNCHANGED <<nested_count, reset_nested, pc_bucket, bucket_caller, bucket_name,
                   test_result, uploaded, nuploads, wiped, created, raw_started,
                   outer_before>>

\* uploaded_file = client.get_object(Bucket=bucket_name, Key=key)
\* assert uploaded_file["Body"].read() == data
test_upload_get ==
    /\ pc_test = "get"
    /\ get_object("caller", bucket_name, TestKey)
    /\ pc_test' = IF resp'.status = "ok" /\ resp'.body = TestData
                  THEN "return" ELSE "raise"
    /\ replaced' = None
    /\ UNCHANGED <<nested_count, reset_nested, pc_bucket, bucket_caller, bucket_name,
                   test_result, uploaded, nuploads, wiped, created, raw_started,
                   outer_before>>

\* Variant of test_upload_exit: the context is left on return only, an
\* exception skips the exit
test_upload_exit_no_finally ==
    /\ pc_test \in {"return", "raise"}
    /\ IF pc_test = "return" THEN stop
       ELSE /\ replaced' = None
            /\ UNCHANGED <<nested_count, backend, wiped, uploaded, nuploads, created>>
    /\ test_result' = IF pc_test = "return" THEN "passed" ELSE "failed"
    /\ pc_test' = "idle"
    /\ bucket_name' = None
    /\ outer_before' = EmptyStore
    /\ resp' = NoResp
    /\ UNCHANGED <<reset_nested, pc_bucket, bucket_caller, raw_started>>

\* the wrapper's exit, on return and on an exception alike
test_upload_exit ==
    /\ pc_test \in {"return", "raise"}
    /\ stop
    /\ test_result' = IF pc_test = "return" THEN "passed" ELSE "failed"
    /\ pc_test' = "idle"
    /\ bucket_name' = None
    /\ outer_before' = EmptyStore
    /\ resp' = NoResp
    /\ UNCHANGED <<reset_nested, pc_bucket, bucket_caller, raw_started>>

---------------------------------------------------------------------------
(* The step-by-step cells *)

\* mock = mock_s3(); mock.start()
mock_start ==
    /\ Idle
    /\ raw_started < MaxNested
    /\ start
    /\ raw_started' = raw_started + 1
    /\ resp' = NoResp
    /\ UNCHANGED <<reset_nested, pc_test, pc_bucket, bucket_caller,
                   bucket_name, test_result, outer_before>>

\* Variant of mock_stop: the cell names mock.stop without calling it
mock_stop_not_called ==
    /\ Idle
    /\ raw_started > 0
    /\ nested_count > 0
    /\ raw_started' = raw_started - 1
    /\ resp' = NoResp
    /\ replaced' = None
    /\ UNCHANGED <<nested_count, backend, wiped, uploaded, nuploads, created,
                   reset_nested, pc_test, pc_bucket, bucket_caller,
                   bucket_name, test_result, outer_before>>

\* mock.stop()
mock_stop ==
    /\ Idle
    /\ raw_started > 0
    /\ nested_count > 0
    /\ stop
    /\ raw_started' = raw_started - 1
    /\ resp' = NoResp
    /\ UNCHANGED <<reset_nested, pc_test, pc_bucket, bucket_caller,
                   bucket_name, test_result, outer_before>>

\* client.create_bucket(Bucket=...)
cell_create_bucket(b) ==
    /\ Idle
    /\ create_bucket("caller", b)
    /\ created' = IF resp'.ctx = "mock" /\ resp'.status = "ok"
                  THEN created \cup {b} ELSE created
    /\ replaced' = None
    /\ UNCHANGED <<nested_count, reset_nested, pc_test, pc_bucket, bucket_caller,
                   bucket_name, test_result, uploaded, nuploads, wiped, raw_started,
                   outer_before>>

\* pprint(client.list_buckets())
cell_list_buckets ==
    /\ Idle
    /\ list_buckets("caller")
    /\ replaced' = None
    /\ UNCHANGED <<nested_count, reset_nested, pc_test, pc_bucket, bucket_caller,
                   bucket_name, test_result, uploaded, nuploads, wiped, created,
                   raw_started, outer_before>>

\* some_upload(data, bucket_name, key)
cell_some_upload(d, b, k) ==
    /\ Idle
    /\ Budget
    /\ some_upload(d, b, k)
    /\ UNCHANGED <<reset_nested, pc_test, pc_bucket, bucket_caller, bucket_name,
                   test_result, raw_started, outer_before>>

\* objects = client.list_objects(Bucket=bucket_name)
cell_list_objects(b) ==
    /\ Idle
    /\ list_objects("caller", b)
    /\ replaced' = None
    /\ UNCHANGED <<nested_count, reset_nested, pc_test, pc_bucket, bucket_caller,
                   bucket_name, test_result, uploaded, nuploads, wiped, created,
                   raw_started, outer_before>>

\* uploaded_file = client.get_object(Bucket=bucket_name, Key=key)
\* print(uploaded_file["Body"].read())
cell_get_object(b, k) ==
    /\ Idle
    /\ get_object("caller", b, k)
    /\ replaced' = None
    /\ UNCHANGED <<nested_count, reset_nested, pc_test, pc_bucket, bucket_caller,
                   bucket_name, test_result, uploaded, nuploads, wiped, created,
                   raw_started, outer_before>>

---------------------------------------------------------------------------

Init ==
    /\ nested_count = 0
    /\ backend = EmptyStore
    /\ reset_nested \in BOOLEAN
    /\ pc_test = "idle"
    /\ pc_bucket = "idle"
    /\ bucket_caller = "top"
    /\ bucket_name = None
    /\ test_result = "none"
    /\ resp = NoResp
    /\ uploaded = NoUploads
    /\ nuploads = NoCounts
    /\ wiped = FALSE
    /\ created = {}
    /\ replaced = None
    /\ raw_started = 0
    /\ outer_before = EmptyStore

Next ==
    \/ mock_start
    \/ mock_stop
    \/ \E b \in Buckets : cell_create_bucket(b)
    \/ cell_list_buckets
    \/ \E d \in Datas, b \in Buckets, k \in Keys : cell_some_upload(d, b, k)
    \/ \E b \in Buckets : cell_list_objects(b)
    \/ \E b \in Buckets, k \in Keys : cell_get_object(b, k)
    \/ \E c \in {"top", "test_upload"} : bucket_enter(c)
    \/ bucket_create
    \/ bucket_exit
    \/ test_upload_enter
    \/ test_upload_upload
    \/ test_upload_list
    \/ test_upload_get
    \/ test_upload_exit

Spec == Init /\ [][Next]_vars

TypeOK ==
    /\ nested_count \in 0..(MaxNested + 2)
    /\ raw_started \in 0..MaxNested
    /\ DOMAIN backend \subseteq Buckets
    /\ pc_test \in {"idle", "bucket", "in_bucket", "upload", "list", "get", "return", "raise"}
    /\ pc_bucket \in {"idle", "create", "return", "raise"}


---------------------------------------------------------------------------
(* Properties *)

InSession == nested_count > 0

UploadedKeys(b) == {k \in Keys : uploaded[b][k] # None}

\* C1: round trip. Inside a mocked session, a get_object of (B, K) that
\* follows some_upload(C, B, K) succeeds and its body is exactly C, the
\* content of the latest upload to (B, K).
C1_RoundTrip ==
    (resp.op = "get_object" /\ resp.ctx = "mock") =>
        /\ resp.status = "ok" => resp.body = uploaded[resp.bucket][resp.key]
        /\ (~wiped /\ uploaded[resp.bucket][resp.key] # None) => resp.status = "ok"

C1_Witness ==
    /\ resp.op = "get_object" /\ resp.ctx = "mock" /\ resp.status = "ok"
    /\ resp.body = CellData
    /\ resp.key # TestKey
    /\ resp.bucket # TestBucket

\* C2: after exactly one some_upload(C, B, K) to a container created in the
\* session, list_objects(B) succeeds with exactly one entry, whose key is K.
C2_OneEntry ==
    (resp.op = "list_objects" /\ resp.ctx = "mock" /\ ~wiped
        /\ nuploads[resp.bucket] = 1) =>
        /\ resp.status = "ok"
        /\ Cardinality(resp.keys) = 1
        /\ resp.keys = UploadedKeys(resp.bucket)

C2_Witness ==
    /\ pc_test = "get"
    /\ resp.op = "list_objects" /\ resp.status = "ok"
    /\ nuploads[TestBucket] = 1 /\ ~wiped
    /\ resp.keys = {TestKey}

\* C3: overwrite. When some_upload stores C2 under a (B, K) that held a
\* different content C1, the container then holds C2 under K and no object
\* with key K holds C1.
C3_Overwrite ==
    replaced # None =>
        /\ resp.op = "put_object" /\ resp.ctx = "mock" /\ resp.status = "ok"
        /\ HasKey(backend, resp.bucket, resp.key)
        /\ \A o \in backend[resp.bucket] :
               o.key = resp.key =>
                   /\ o.body = uploaded[resp.bucket][resp.key]
                   /\ o.body # replaced

C3_Witness ==
    /\ replaced = TestData
    /\ resp.op = "put_object" /\ resp.status = "ok"
    /\ s3_get_object("caller", backend, resp.bucket, resp.key) = CellData

\* C4: an upload, a listing or a retrieval addressed to a container that
\* does not exist in the mocked session is answered with an error, and the
\* step leaves the session's containers and objects as they were.
C4_NoSuchBucket ==
    [][(/\ resp'.ctx = "mock"
        /\ resp'.op \in {"put_object", "list_objects", "get_object"}
        /\ ~HasBucket(backend, resp'.bucket))
       => (/\ resp'.status = "error"
           /\ backend' = backend
           /\ nested_count' = nested_count)]_vars

C4_Witness ==
    /\ InSession
    /\ resp.ctx = "mock" /\ resp.op = "put_object" /\ resp.status = "error"
    /\ ~HasBucket(backend, resp.bucket)
    /\ backend # EmptyStore

\* C5: in every state of a mocked session each container holds at most one
\* object per key, and (as long as no overlapping start has reset the
\* store) listing a container yields exactly the keys uploaded to it in the
\* session, and nothing has been uploaded to a container that is absent.
C5_KeysInvariant ==
    InSession =>
        /\ \A b \in DOMAIN backend :
               /\ \A o1, o2 \in backend[b] : o1.key = o2.key => o1 = o2
               /\ ~wiped => s3_list_objects("caller", backend, b) = UploadedKeys(b)
        /\ ~wiped => \A b \in Buckets \ DOMAIN backend : UploadedKeys(b) = {}

C5_Witness ==
    /\ InSession /\ ~wiped
    /\ \E b1, b2 \in DOMAIN backend :
           /\ b1 # b2
           /\ s3_list_objects("caller", backend, b1) = {TestKey}
           /\ s3_list_objects("caller", backend, b2) = Keys \ {TestKey}

\* C6: no persistence. Once every session has ended (test_upload has
\* returned, every mock.start() has been matched by mock.stop()) the store
\* is empty; a session holds and lists exactly the containers created in
\* it, and a create_bucket collides only with a container created in the
\* same session.
C6_NoPersistence ==
    /\ (Idle /\ raw_started = 0) => backend = EmptyStore
    /\ (InSession /\ ~wiped) => DOMAIN backend = created
    /\ (resp.op = "list_buckets" /\ resp.ctx = "mock" /\ ~wiped) => resp.names = created
    /\ (resp.op = "create_bucket" /\ resp.ctx = "mock" /\ resp.status = "error")
           => resp.bucket \in created

C6_Witness ==
    /\ test_result = "passed"
    /\ Idle /\ raw_started = 1 /\ nested_count = 1
    /\ ~wiped /\ nuploads = NoCounts
    /\ resp.op = "list_buckets" /\ resp.names = Buckets

\* C7: scoped teardown. Whenever test_upload is not running, the contexts
\* entered are exactly those of outstanding mock.start() calls and of a
\* running helper: the context the decorator entered has been left, after a
\* normal return and after a failure alike.
C7_ScopedTeardown ==
    pc_test = "idle" =>
        nested_count = raw_started + (IF pc_bucket = "idle" THEN 0 ELSE 1)

C7_Witness ==
    /\ test_result = "failed"
    /\ Idle
    /\ nested_count = raw_started

\* C8: overlapping contexts. While test_upload runs the session stays
\* active; when the helper has returned to it, test_bucket is present and
\* every container the outer context held when the helper was called is
\* still there with the same objects.
C8_OverlappingContexts ==
    /\ pc_test # "idle" => nested_count >= raw_started + 1
    /\ pc_test = "upload" =>
           /\ HasBucket(backend, TestBucket)
           /\ \A b \in DOMAIN outer_before :
                  HasBucket(backend, b) /\ backend[b] = outer_before[b]

C8_Witness ==
    /\ pc_test = "upload"
    /\ HasBucket(backend, TestBucket)
    /\ \E b \in DOMAIN outer_before : outer_before[b] # {}

\* C9: shared store. An object some_upload has written through its own
\* client is visible, with its key and content, to list_objects and
\* get_object of every client; in test_upload the upload has reached the
\* mocked store when the caller's client lists it.
C9_SharedStore ==
    /\ pc_test = "list" =>
           /\ resp.ctx = "mock"
           /\ HasKey(backend, bucket_name, TestKey)
    /\ (resp.op = "put_object" /\ resp.ctx = "mock" /\ resp.status = "ok") =>
           /\ HasKey(backend, resp.bucket, resp.key)
           /\ \A c \in Clients :
                  /\ resp.key \in s3_list_objects(c, backend, resp.bucket)
                  /\ s3_get_object(c, backend, resp.bucket, resp.key)
                         = uploaded[resp.bucket][resp.key]

C9_Witness ==
    /\ pc_test = "list"
    /\ resp.op = "put_object" /\ resp.status = "ok"
    /\ s3_get_object("caller", backend, TestBucket, TestKey) = TestData

\* C10: the helper bucket(client). A mocked session is active whenever the
\* helper runs, so its create_bucket call never reaches the real service;
\* when the call has succeeded test_bucket exists in the mocked store and
\* the helper returns that name; the call fails only when the helper was
\* entered inside another context.
C10_HelperSafety ==
    /\ pc_bucket # "idle" => InSession
    /\ (resp.who = "bucket" /\ resp.op # None) => resp.ctx = "mock"
    /\ pc_bucket = "return" => (resp.ctx = "mock" /\ HasBucket(backend, TestBucket))
    /\ pc_bucket = "raise" => nested_count > 1
    /\ pc_test \in {"upload", "list", "get"} => bucket_name = TestBucket

C10_Witness ==
    /\ pc_bucket = "return"
    /\ bucket_caller = "top"
    /\ nested_count = 1 /\ raw_started = 0

=============================================================================
